---- MODULE Spec2Model ----
(***************************************************************************)
(* A model of atactk/data.py: the nucleotide complement functions, the     *)
(* ExtendedFeature region model and its rendering, open_maybe_gzipped,     *)
(* the read_features and make_fastq_pair_reader generators and             *)
(* filter_aligned_segments.                                                *)
(*                                                                         *)
(* Python strings are sequences of one-character strings, of characters   *)
(* below U+0100.  Each function of the source has its own specification;   *)
(* the variables of the other functions are pinned while it runs.          *)
(***************************************************************************)
EXTENDS Integers, Sequences, FiniteSets, TLC

VARIABLES
    seq, rc_calls, rc_once, rc_twice,
    aligned_segments, include_flags, exclude_flags, quality,
    filtered_aligned_segments, filter_pc,
    ctor_args, feature, rendered, feature_pc,
    rf_args, source, rf_yielded, rf_pc, rf_error,
    fq_args, f1, f2, fq_yielded, fq_pc, fq_error,
    handles

rcVars == <<seq, rc_calls, rc_once, rc_twice>>
filterVars == <<aligned_segments, include_flags, exclude_flags, quality,
                filtered_aligned_segments, filter_pc>>
featureVars == <<ctor_args, feature, rendered, feature_pc>>
readerVars == <<rf_args, source, rf_yielded, rf_pc, rf_error>>
fastqVars == <<fq_args, f1, f2, fq_yielded, fq_pc, fq_error>>
vars == <<rcVars, filterVars, featureVars, readerVars, fastqVars, handles>>

\* ------------------------------------------------------------------ bounds

MaxSeqLen == 3
MaxSegments == 2
MaxRows == 2
MaxRecords == 2

\* ----------------------------------------------------- sequence utilities

RECURSIVE SeqsUpTo(_, _)
SeqsUpTo(S, n) ==
    IF n = 0 THEN {<<>>}
    ELSE LET shorter == SeqsUpTo(S, n - 1)
         IN  shorter \cup {Append(s, x) : s \in {t \in shorter : Len(t) = n - 1}, x \in S}

\* ------------------------------------------------- complement (lines 21-168)

NUCLEOTIDE_COMPLEMENTS_swapped ==
    ("A" :> "T") @@ ("C" :> "G") @@ ("G" :> "G") @@ ("N" :> "N") @@ ("T" :> "A") @@
    ("a" :> "t") @@ ("c" :> "g") @@ ("g" :> "c") @@ ("n" :> "n") @@ ("t" :> "a")

NUCLEOTIDE_COMPLEMENTS ==
    ("A" :> "T") @@ ("C" :> "G") @@ ("G" :> "C") @@ ("N" :> "N") @@ ("T" :> "A") @@
    ("a" :> "t") @@ ("c" :> "g") @@ ("g" :> "c") @@ ("n" :> "n") @@ ("t" :> "a")

Bases == DOMAIN NUCLEOTIDE_COMPLEMENTS

\* ''.join(NUCLEOTIDE_COMPLEMENTS[base] for base in seq)
complement(s) == [i \in 1..Len(s) |-> NUCLEOTIDE_COMPLEMENTS[s[i]]]

\* reversed(seq)
reversed(s) == [i \in 1..Len(s) |-> s[Len(s) + 1 - i]]

reverse_complement(s) == complement(reversed(s))

RcIdle ==
    /\ seq = <<>>
    /\ rc_calls = 0
    /\ rc_once = <<>>
    /\ rc_twice = <<>>

RcInit ==
    /\ seq \in SeqsUpTo(Bases, MaxSeqLen)
    /\ rc_calls = 0
    /\ rc_once = <<>>
    /\ rc_twice = <<>>

\* rc = reverse_complement(seq)
CallReverseComplement ==
    /\ rc_calls = 0
    /\ rc_once' = reverse_complement(seq)
    /\ rc_calls' = 1
    /\ UNCHANGED <<seq, rc_twice, filterVars, featureVars, readerVars, fastqVars, handles>>

\* reverse_complement(rc)
CallReverseComplementAgain ==
    /\ rc_calls = 1
    /\ rc_twice' = reverse_complement(rc_once)
    /\ rc_calls' = 2
    /\ UNCHANGED <<seq, rc_once, filterVars, featureVars, readerVars, fastqVars, handles>>

\* ------------------------------------- filter_aligned_segments (235-300)

\* Python's & on non-negative integers
RECURSIVE BitAnd(_, _)
BitAnd(a, b) ==
    IF a = 0 \/ b = 0 THEN 0
    ELSE (a % 2) * (b % 2) + 2 * BitAnd(a \div 2, b \div 2)

\* any(map(lambda f: (a.flag & f) == f, include_flags)), overlap instead of submask
IncludeMatch_overlap(a, incl) ==
    \E i \in 1..Len(incl) : BitAnd(a.flag, incl[i]) # 0

\* any(map(lambda f: (a.flag & f) == f, include_flags))
IncludeMatch(a, incl) ==
    \E i \in 1..Len(incl) : BitAnd(a.flag, incl[i]) = incl[i]

\* all(map(lambda f: (a.flag & f) == 0, exclude_flags))
ExcludeClear(a, excl) ==
    \A i \in 1..Len(excl) : BitAnd(a.flag, excl[i]) = 0

\* the condition of the list comprehension
Retained(a, incl, excl, q) ==
    /\ a.mapping_quality >= q
    /\ IncludeMatch(a, incl)
    /\ ExcludeClear(a, excl)

\* [a for a in aligned_segments if all([...])]
filter_aligned_segments(segs, incl, excl, q) ==
    LET Test(a) == Retained(a, incl, excl, q)
    IN  SelectSeq(segs, Test)

SegmentFlags == {4, 83, 99, 103, 147, 163}
SegmentQualities == {10, 30}
Segments == [mapping_quality : SegmentQualities, flag : SegmentFlags]
IncludeLists == {<<>>, <<99, 163>>, <<83, 99, 147, 163>>, <<3>>}
ExcludeLists == {<<>>, <<4, 8>>, <<16>>}
Qualities == {0, 20, 30, 31}

FilterIdle ==
    /\ aligned_segments = <<>>
    /\ include_flags = <<>>
    /\ exclude_flags = <<>>
    /\ quality = 0
    /\ filtered_aligned_segments = <<>>
    /\ filter_pc = "idle"

FilterInit ==
    /\ aligned_segments \in SeqsUpTo(Segments, MaxSegments)
    /\ include_flags \in IncludeLists
    /\ exclude_flags \in ExcludeLists
    /\ quality \in Qualities
    /\ filtered_aligned_segments = <<>>
    /\ filter_pc = "call"

CallFilter ==
    /\ filter_pc = "call"
    /\ filtered_aligned_segments' =
           filter_aligned_segments(aligned_segments, include_flags, exclude_flags, quality)
    /\ filter_pc' = "returned"
    /\ UNCHANGED <<aligned_segments, include_flags, exclude_flags, quality, rcVars, featureVars, readerVars, fastqVars, handles>>


\* ------------------------------------------------------- Python values

\* A Python value: None, an int, a float or a str.  An int is an integer of
\* TLC (32 bits).  A float is held as repr shows it, which names the double:
\* its sign i, and the digits s and the power of ten e of the shortest decimal
\* s * 10^e that float() reads back as this double (s without leading or
\* trailing zeros; 0 with e = 0 for zero), or the word inf or nan in s.
None == [t |-> "None", i |-> 0, e |-> 0, s |-> <<>>]
PyInt(n) == [t |-> "int", i |-> n, e |-> 0, s |-> <<>>]
PyStr(chars) == [t |-> "str", i |-> 0, e |-> 0, s |-> chars]

Inf == [t |-> "float", i |-> 1, e |-> 0, s |-> <<"i", "n", "f">>]
NegInf == [t |-> "float", i |-> 0 - 1, e |-> 0, s |-> <<"i", "n", "f">>]
NaN == [t |-> "float", i |-> 1, e |-> 0, s |-> <<"n", "a", "n">>]
Zero == [t |-> "float", i |-> 1, e |-> 0, s |-> <<"0">>]
NegZero == [t |-> "float", i |-> 0 - 1, e |-> 0, s |-> <<"0">>]

\* A raised exception, in place of a value.
Raise(kind) == [t |-> kind, i |-> 0, e |-> 0, s |-> <<>>]
IsError(v) == v.t \in {"TypeError", "ValueError", "OverflowError"}

RECURSIVE Pow(_, _)
Pow(b, k) == IF k = 0 THEN 1 ELSE b * Pow(b, k - 1)

DigitChars == <<"0", "1", "2", "3", "4", "5", "6", "7", "8", "9">>
IsDigit(c) == \E d \in 1..10 : DigitChars[d] = c
DigitValue(c) == (CHOOSE d \in 1..10 : DigitChars[d] = c) - 1

\* the characters U+000B, U+001C..U+001F, U+0085 and U+00A0
VT == ""
FS == ""
GS == ""
RS == ""
US == ""
NEL == ""
NBSP == " "

\* the characters str.isspace() holds for (below U+0100, the characters a
\* string of the model can hold)
Whitespace == {" ", "\t", "\n", "\r", "\f", VT, FS, GS, RS, US, NEL, NBSP}

\* the characters int() and float() skip around a number
NumericWhitespace == {" ", "\t", "\n", "\r", "\f", VT, NEL, NBSP}

\* s without the characters of chars it starts with
LeftTrim(s, chars) ==
    IF \A k \in 1..Len(s) : s[k] \in chars THEN <<>>
    ELSE SubSeq(s, CHOOSE k \in 1..Len(s) :
                        s[k] \notin chars /\ \A j \in 1..(k - 1) : s[j] \in chars,
                Len(s))

\* s without the characters of chars it ends with
RightTrim(s, chars) ==
    IF \A k \in 1..Len(s) : s[k] \in chars THEN <<>>
    ELSE SubSeq(s, 1, CHOOSE k \in 1..Len(s) :
                           s[k] \notin chars /\ \A j \in (k + 1)..Len(s) : s[j] \in chars)

\* str.strip()
lstrip(s) == LeftTrim(s, Whitespace)
rstrip(s) == RightTrim(s, Whitespace)
strip(s) == rstrip(lstrip(s))

\* the text of a number as int() and float() see it
NumericBody(s) == RightTrim(LeftTrim(s, NumericWhitespace), NumericWhitespace)

AllDigits(s) == s # <<>> /\ \A k \in 1..Len(s) : IsDigit(s[k])

RECURSIVE DigitsValue(_)
DigitsValue(s) ==
    IF s = <<>> THEN 0 ELSE 10 * DigitsValue(SubSeq(s, 1, Len(s) - 1)) + DigitValue(s[Len(s)])

HasSign(s) == s # <<>> /\ Head(s) \in {"+", "-"}
Unsigned(s) == IF HasSign(s) THEN Tail(s) ELSE s
SignOf(s) == IF s # <<>> /\ Head(s) = "-" THEN 0 - 1 ELSE 1

\* an underscore may stand between two digits only
UnderscoresOk(s) ==
    \A k \in 1..Len(s) :
        s[k] = "_" => (k > 1 /\ k < Len(s) /\ IsDigit(s[k - 1]) /\ IsDigit(s[k + 1]))

WithoutUnderscores(s) ==
    LET Kept(c) == c # "_"
    IN  SelectSeq(s, Kept)

\* the first place of c in s, 0 when it has none
FirstIndex(s, c) ==
    IF \E k \in 1..Len(s) : s[k] = c
    THEN CHOOSE k \in 1..Len(s) : s[k] = c /\ \A j \in 1..(k - 1) : s[j] # c
    ELSE 0

\* the lower case of the letters of inf, infinity, nan and the exponent mark
Lower(c) ==
    CASE c = "A" -> "a" [] c = "E" -> "e" [] c = "F" -> "f" [] c = "I" -> "i"
      [] c = "N" -> "n" [] c = "T" -> "t" [] c = "Y" -> "y" [] OTHER -> c

RECURSIVE NatToStr(_)
NatToStr(n) ==
    IF n < 10 THEN <<DigitChars[n + 1]>>
    ELSE NatToStr(n \div 10) \o <<DigitChars[(n % 10) + 1]>>

IntToStr(n) == IF n < 0 THEN <<"-">> \o NatToStr(0 - n) ELSE NatToStr(n)

\* ------------------------------------------- natural numbers of any size

\* Python's int has no bound and a double has 53 bits: where the integers of
\* TLC (32 bits) do not reach, a natural number is held as its digits in base
\* 10^4, least significant first, without leading zeros; <<>> is 0.
Limb == 10000
LimbDigits == 4

LimbAt(x, k) == IF k <= Len(x) THEN x[k] ELSE 0

\* x without its leading zeros
Trimmed(x) ==
    SubSeq(x, 1, CHOOSE k \in 0..Len(x) :
                    (k = 0 \/ x[k] # 0) /\ \A j \in (k + 1)..Len(x) : x[j] = 0)

\* The digits from..to of the number whose digit k is x[k] + carry, of any
\* size or sign, each brought into 0..Limb-1 with its carry or borrow passed
\* on to the next (the range is halved to keep the evaluation shallow).
RECURSIVE Rippled(_, _, _, _)
Rippled(x, from, to, carry) ==
    IF from > to THEN [digits |-> <<>>, carry |-> carry]
    ELSE IF from = to
    THEN [digits |-> <<(x[from] + carry) % Limb>>, carry |-> (x[from] + carry) \div Limb]
    ELSE LET middle == (from + to) \div 2
             lower == Rippled(x, from, middle, carry)
             upper == Rippled(x, middle + 1, to, lower.carry)
         IN  [digits |-> lower.digits \o upper.digits, carry |-> upper.carry]

\* the number whose digit k is x[k] (of size below 2^31): two more digits
\* take the last carry
Carried(x) == Trimmed(Rippled(x \o <<0, 0>>, 1, Len(x) + 2, 0).digits)

Max(a, b) == IF a > b THEN a ELSE b

\* n as such a number, a + b, a - b (for a >= b) and a * m (for m <= 2^17)
NatOf(n) == Carried(<<n>>)
Sum(a, b) == Carried([k \in 1..Max(Len(a), Len(b)) |-> LimbAt(a, k) + LimbAt(b, k)])
Difference(a, b) == Carried([k \in 1..Max(Len(a), Len(b)) |-> LimbAt(a, k) - LimbAt(b, k)])
Times(a, m) == Carried([k \in 1..Len(a) |-> a[k] * m])

\* -1, 0 or 1 as a < b, a = b or a > b: the longer number is the larger,
\* and of two of one length the one with the larger first digit that differs
Compare(a, b) ==
    IF Len(a) > Len(b) THEN 1
    ELSE IF Len(a) < Len(b) THEN 0 - 1
    ELSE LET n == Len(a)
             same == CHOOSE d \in 0..n :
                        /\ d = n \/ a[n - d] # b[n - d]
                        /\ \A j \in 1..d : a[n + 1 - j] = b[n + 1 - j]
         IN  IF same = n THEN 0 ELSE IF a[n - same] > b[n - same] THEN 1 ELSE 0 - 1

\* a * 2^n (the exponent is halved to keep the evaluation shallow)
RECURSIVE TimesPowerOf2(_, _)
TimesPowerOf2(a, n) ==
    IF a = <<>> \/ n = 0 THEN a
    ELSE IF n <= 17 THEN Times(a, Pow(2, n))
    ELSE TimesPowerOf2(TimesPowerOf2(a, n \div 2), n - (n \div 2))

\* a * 10^n
TimesPowerOf10(a, n) ==
    IF a = <<>> THEN a
    ELSE [k \in 1..(n \div LimbDigits) |-> 0] \o Times(a, Pow(10, n % LimbDigits))

\* the number of decimal digits of a
NumDigits(a) ==
    IF a = <<>> THEN 0 ELSE LimbDigits * (Len(a) - 1) + Len(NatToStr(a[Len(a)]))

\* the number a digit string writes
NatOfDigits(s) ==
    LET n == Len(s)
    IN  Trimmed([k \in 1..((n + LimbDigits - 1) \div LimbDigits) |->
                    DigitsValue(SubSeq(s, IF n - LimbDigits * k + 1 < 1 THEN 1
                                          ELSE n - LimbDigits * k + 1,
                                       n - LimbDigits * (k - 1)))])

\* ------------------------------------------------------------- doubles

\* A finite double is M * 2^q with 0 <= M < 2^53 and -1074 <= q <= 971
\* (IEEE 754 binary64; M < 2^52 only for q = -1074, the subnormal doubles).
MantissaBits == 53
MinExponent == 0 - 1074
MaxExponent == 971
TwoTo52 == TimesPowerOf2(<<1>>, MantissaBits - 1)
TwoTo53 == TimesPowerOf2(<<1>>, MantissaBits)

IsEven(a) == a = <<>> \/ a[1] % 2 = 0

\* an exponent q with 2^(q + 52) <= num / den, from the digit counts
\* (3.3219 < log2(10) < 3.3220)
ExponentBelow(num, den) ==
    LET t == NumDigits(num) - NumDigits(den) - 1
    IN  (IF t >= 0 THEN (t * 33219) \div 10000
         ELSE 0 - (((0 - t) * 33220 + 9999) \div 10000)) - (MantissaBits - 1)

\* A division in progress is [M, R, T, q]: M holds the binary digits of the
\* quotient found so far, R / T is what is left to divide and q is the
\* exponent of the last of the 53 digits.  It starts as num / den =
\* (R / T) * 2^(q + 53), without a digit.
Division(num, den, q) ==
    [M |-> <<>>,
     R |-> TimesPowerOf2(num, Max(0 - (q + MantissaBits), 0)),
     T |-> TimesPowerOf2(den, Max(q + MantissaBits, 0)),
     q |-> q]

\* T doubled and q raised until R < T, so that 53 digits hold the quotient
RECURSIVE Scaled(_)
Scaled(at) ==
    IF Compare(at.R, at.T) < 0 THEN at
    ELSE Scaled([at EXCEPT !.T = Times(at.T, 2), !.q = at.q + 1])

\* One more binary digit of R / T after those of M, and what is left of R:
\* M2 and R2 are M and R doubled.
QuotientBit(at, M2, R2) ==
    IF Compare(R2, at.T) >= 0
    THEN [at EXCEPT !.M = Sum(M2, <<1>>), !.R = Difference(R2, at.T)]
    ELSE [at EXCEPT !.M = M2, !.R = R2]

\* `bits` more binary digits: zeros once nothing is left (their number is
\* halved to keep the evaluation shallow)
RECURSIVE Quotient(_, _)
Quotient(at, bits) ==
    IF at.R = <<>> \/ bits = 0 THEN [at EXCEPT !.M = TimesPowerOf2(at.M, bits)]
    ELSE IF bits = 1 THEN QuotientBit(at, Times(at.M, 2), Times(at.R, 2))
    ELSE Quotient(Quotient(at, bits \div 2), bits - (bits \div 2))

\* the double M * 2^q as [inf, M, q]: beyond the largest exponent it is inf
Double(M, q) ==
    IF q > MaxExponent THEN [inf |-> TRUE, M |-> <<>>, q |-> 0]
    ELSE [inf |-> FALSE, M |-> M, q |-> q]

\* a mantissa that rounding has carried to 2^53 is 2^52 at the next exponent
Normalized(M, q) == IF M = TwoTo53 THEN Double(TwoTo52, q + 1) ELSE Double(M, q)

\* The 53 digits rounded to nearest, ties to the even mantissa: half tells
\* whether what is left is below (-1), at (0) or above (1) half a unit.
Rounded(at, half) ==
    Normalized(IF half > 0 \/ (half = 0 /\ ~IsEven(at.M)) THEN Sum(at.M, <<1>>) ELSE at.M,
               at.q)

RoundedQuotient(at) == Rounded(at, Compare(Times(at.R, 2), at.T))

\* The double nearest num / den > 0, ties to the even mantissa: [inf, M, q].
\* Below 2^-1022 the exponent stays -1074 and the mantissa is shorter (the
\* subnormal doubles, down to zero).
RoundToDouble(num, den) ==
    RoundedQuotient(Quotient(Scaled(Division(num, den,
                                             Max(ExponentBelow(num, den), MinExponent))),
                             MantissaBits))

\* floor(r / s) for r < 10 s, and the remainder
RECURSIVE DigitOf(_, _, _)
DigitOf(r, s, d) ==
    IF Compare(r, s) < 0 THEN [d |-> d, r |-> r]
    ELSE DigitOf(Difference(r, s), s, d + 1)

\* the least k from k on with high <= s * 10^k' (< for an odd mantissa),
\* s multiplied along the way
RECURSIVE DecimalPoint(_, _, _, _)
DecimalPoint(high, s, k, even) ==
    IF Compare(high, s) < (IF even THEN 0 ELSE 1) THEN [s |-> s, k |-> k]
    ELSE DecimalPoint(high, Times(s, 10), k + 1, even)

\* The digits after the first ones of the shortest decimal between the
\* neighbours of a double: r0 / s is what is left of the double, mplus0 / s
\* and mminus0 / s the half distances to its neighbours (David Gay's dtoa,
\* mode 0, which repr uses).  Each step takes the next digit d and leaves r;
\* it ends when the digits so far, or with the last one raised, lie between
\* the neighbours, and picks the nearer: low compares r with mminus, high
\* r + mplus with s, and half 2 r with s.
RECURSIVE ShortestDigits(_, _, _, _, _)
LastOrNextDigit(d, r, s, mplus, mminus, even, low, high, half) ==
    IF high = 0 /\ even
    THEN <<DigitChars[(IF low > 0 THEN d + 1 ELSE d) + 1]>>
    ELSE IF low < (IF even THEN 1 ELSE 0)
    THEN <<DigitChars[(IF r # <<>> /\ high > 0 /\ (half > 0 \/ (half = 0 /\ d % 2 = 1))
                       THEN d + 1 ELSE d) + 1]>>
    ELSE IF high > 0 THEN <<DigitChars[d + 2]>>
    ELSE <<DigitChars[d + 1]>> \o ShortestDigits(r, s, mplus, mminus, even)

NextDigit(step, s, mplus, mminus, even) ==
    LastOrNextDigit(step.d, step.r, s, mplus, mminus, even,
                    Compare(step.r, mminus), Compare(Sum(step.r, mplus), s),
                    Compare(Times(step.r, 2), s))

ShortestDigits(r0, s, mplus0, mminus0, even) ==
    NextDigit(DigitOf(Times(r0, 10), s, 0), s, Times(mplus0, 10), Times(mminus0, 10), even)

\* the digits and the power of ten of the digits before the point
DecimalOf(digits, k) == [digits |-> digits, e |-> k - Len(digits)]

DigitsFrom(r, mplus, mminus, even, point) ==
    DecimalOf(ShortestDigits(r, point.s, mplus, mminus, even), point.k)

\* r0 / s0 brought to 1/10 <= (r + mplus) / s <= 1, starting from the digit
\* counts
ShortestFrom(r0, s0, mplus0, mminus0, even, k0) ==
    DigitsFrom(TimesPowerOf10(r0, Max(0 - k0, 0)), TimesPowerOf10(mplus0, Max(0 - k0, 0)),
               TimesPowerOf10(mminus0, Max(0 - k0, 0)), even,
               DecimalPoint(Sum(TimesPowerOf10(r0, Max(0 - k0, 0)),
                                TimesPowerOf10(mplus0, Max(0 - k0, 0))),
                            TimesPowerOf10(s0, Max(k0, 0)), k0, even))

ShortestBetween(r0, s0, mplus0, mminus0, even) ==
    ShortestFrom(r0, s0, mplus0, mminus0, even, NumDigits(r0) - NumDigits(s0) - 1)

\* the double is r0 / s0 with unit = 1, and with unit = 2 at a power of two,
\* where the double below is half as far as the one above
ShortestWithUnit(M, q, unit) ==
    ShortestBetween(TimesPowerOf2(M, unit + Max(q, 0)),
                    TimesPowerOf2(<<1>>, unit + Max(0 - q, 0)),
                    TimesPowerOf2(NatOf(unit), Max(q, 0)),
                    TimesPowerOf2(<<1>>, Max(q, 0)),
                    IsEven(M))

\* repr's decimal of the double M * 2^q > 0: the shortest digit string
\* that float() reads back as this double, nearest to it, as [digits, e] for
\* digits * 10^e.
ShortestDecimal(M, q) ==
    ShortestWithUnit(M, q, IF M = TwoTo52 /\ q > MinExponent THEN 2 ELSE 1)

\* ----------------------------------------------------------- float, repr

IsFinite(x) == IsDigit(x.s[1])
IsZero(x) == x.s = <<"0">>

\* the float of the sign and the decimal digits * 10^e that repr shows
FloatOf(negative, digits, e) ==
    LET significant == LeftTrim(digits, {"0"})
        kept == RightTrim(significant, {"0"})
    IN  [t |-> "float", i |-> IF negative THEN 0 - 1 ELSE 1,
         e |-> IF kept = <<>> THEN 0 ELSE e + (Len(significant) - Len(kept)),
         s |-> IF kept = <<>> THEN <<"0">> ELSE kept]

\* the float m * 10^e
PyFloat(m, e) == FloatOf(m < 0, NatToStr(IF m < 0 THEN 0 - m ELSE m), e)

\* The double nearest digits * 10^e: [inf, M, q].  Beyond 10^309 it is inf
\* and below 10^-324 zero whatever the digits.
DoubleOfDecimal(digits, e) ==
    LET significant == LeftTrim(digits, {"0"})
        decpt == Len(significant) + e
    IN  IF significant = <<>> \/ decpt + 323 < 0 THEN [inf |-> FALSE, M |-> <<>>, q |-> 0]
        ELSE IF decpt > 309 THEN [inf |-> TRUE, M |-> <<>>, q |-> 0]
        ELSE RoundToDouble(TimesPowerOf10(NatOfDigits(significant), Max(e, 0)),
                           TimesPowerOf10(<<1>>, Max(0 - e, 0)))

FloatOfDecimal(negative, decimal) == FloatOf(negative, decimal.digits, decimal.e)

\* the float of a double
FloatOfDouble(negative, double) ==
    IF double.inf THEN (IF negative THEN NegInf ELSE Inf)
    ELSE IF double.M = <<>> THEN (IF negative THEN NegZero ELSE Zero)
    ELSE FloatOfDecimal(negative, ShortestDecimal(double.M, double.q))

\* the float nearest the decimal digits * 10^e, with its sign
NearestDouble(negative, digits, e) == FloatOfDouble(negative, DoubleOfDecimal(digits, e))

\* the integer of a finite float, towards zero
Truncated(x) ==
    LET whole == IF x.e >= 0 THEN x.s \o [k \in 1..x.e |-> "0"]
                 ELSE SubSeq(x.s, 1, Len(x.s) + x.e)
    IN  x.i * DigitsValue(whole)

\* int(x): None is a TypeError; a str is read, between whitespace, as
\* [+-]digits with single underscores between digits, and is a ValueError
\* otherwise; a float is truncated, inf is an OverflowError and nan a
\* ValueError.
int(x) ==
    CASE x.t = "None" -> Raise("TypeError")
      [] x.t = "int" -> x
      [] x.t = "float" ->
            IF IsFinite(x) THEN PyInt(Truncated(x))
            ELSE IF x = NaN THEN Raise("ValueError")
            ELSE Raise("OverflowError")
      [] x.t = "str" ->
            LET body == NumericBody(x.s)
                digits == WithoutUnderscores(Unsigned(body))
            IN  IF UnderscoresOk(body) /\ AllDigits(digits)
                THEN PyInt(SignOf(body) * DigitsValue(digits))
                ELSE Raise("ValueError")
      [] OTHER -> x

\* A decimal literal digits[.digits][e[+-]digits] or .digits[e[+-]digits]:
\* whether u is one, its digits without the point, and its power of ten.
FloatParts(u) ==
    LET epos == FirstIndex(u, "e")
        mantissa == IF epos = 0 THEN u ELSE SubSeq(u, 1, epos - 1)
        exponent == IF epos = 0 THEN <<>> ELSE SubSeq(u, epos + 1, Len(u))
        dot == FirstIndex(mantissa, ".")
        whole == IF dot = 0 THEN mantissa ELSE SubSeq(mantissa, 1, dot - 1)
        fraction == IF dot = 0 THEN <<>> ELSE SubSeq(mantissa, dot + 1, Len(mantissa))
        ok == /\ AllDigits(whole \o fraction)
              /\ epos # 0 => AllDigits(Unsigned(exponent))
    IN  [ok |-> ok,
         digits |-> whole \o fraction,
         exponent |-> IF ~ok THEN 0
                      ELSE IF epos = 0 THEN 0 - Len(fraction)
                      ELSE SignOf(exponent) * DigitsValue(Unsigned(exponent)) - Len(fraction)]

\* float(x): None is a TypeError; an int is the double of that value; a str
\* is read, between whitespace and in either case, as [+-]inf, [+-]infinity,
\* [+-]nan or a signed decimal literal with single underscores between
\* digits, which gives the nearest double, and is a ValueError otherwise.
float(x) ==
    CASE x.t = "None" -> Raise("TypeError")
      [] x.t = "int" -> PyFloat(x.i, 0)
      [] x.t = "float" -> x
      [] x.t = "str" ->
            LET body == NumericBody(x.s)
                negative == SignOf(body) < 0
                u == [k \in 1..Len(Unsigned(body)) |-> Lower(Unsigned(body)[k])]
                parts == FloatParts(WithoutUnderscores(u))
            IN  IF u \in {<<"i", "n", "f">>, <<"i", "n", "f", "i", "n", "i", "t", "y">>}
                THEN (IF negative THEN NegInf ELSE Inf)
                ELSE IF u = <<"n", "a", "n">> THEN NaN
                ELSE IF UnderscoresOk(body) /\ parts.ok
                THEN NearestDouble(negative, parts.digits, parts.exponent)
                ELSE Raise("ValueError")
      [] OTHER -> x

Zeros(n) == [k \in 1..n |-> "0"]

\* repr(x) of a float: inf, nan, or the shortest decimal, positional when
\* the decimal point falls in -4 < decpt <= 16, otherwise d[.ddd]e+XX
float_repr(x) ==
    LET sign == IF x.i < 0 THEN <<"-">> ELSE <<>>
        digits == x.s
        n == Len(digits)
        decpt == n + x.e
        power == decpt - 1
        powerDigits == NatToStr(IF power < 0 THEN 0 - power ELSE power)
    IN  IF ~IsFinite(x) THEN sign \o x.s
        ELSE IF IsZero(x) THEN sign \o <<"0", ".", "0">>
        ELSE IF decpt + 4 > 0 /\ decpt <= 16
        THEN sign \o (IF decpt <= 0 THEN <<"0", ".">> \o Zeros(0 - decpt) \o digits
                      ELSE IF decpt >= n THEN digits \o Zeros(decpt - n) \o <<".", "0">>
                      ELSE SubSeq(digits, 1, decpt) \o <<".">> \o SubSeq(digits, decpt + 1, n))
        ELSE sign \o <<digits[1]>> \o (IF n > 1 THEN <<".">> \o Tail(digits) ELSE <<>>)
                  \o <<"e">> \o (IF power < 0 THEN <<"-">> ELSE <<"+">>)
                  \o (IF Len(powerDigits) < 2 THEN <<"0">> ELSE <<>>) \o powerDigits

\* str(x)
str(x) ==
    CASE x.t = "None" -> <<"N", "o", "n", "e">>
      [] x.t = "int" -> IntToStr(x.i)
      [] x.t = "float" -> float_repr(x)
      [] OTHER -> x.s

\* the truth value of x: None, 0, 0.0, -0.0 and '' are false
Truthy(x) ==
    CASE x.t = "None" -> FALSE
      [] x.t = "str" -> x.s # <<>>
      [] x.t = "float" -> ~IsZero(x)
      [] OTHER -> x.i # 0

\* x or ''
OrEmpty(x) == IF Truthy(x) THEN x ELSE PyStr(<<>>)

\* sep.join(parts)
RECURSIVE join(_, _)
join(sep, parts) ==
    IF parts = <<>> THEN <<>>
    ELSE IF Len(parts) = 1 THEN parts[1]
    ELSE parts[1] \o sep \o join(sep, Tail(parts))

\* x > 0 for a number x (nan > 0 is false)
Positive(x) ==
    IF x.t = "int" THEN x.i > 0
    ELSE IF x.t = "float" THEN x.i > 0 /\ ~IsZero(x) /\ x # NaN
    ELSE FALSE

\* The exact difference of two numbers given by sign and size, A for a and
\* B for b, as sign and size; order compares A with B.
Subtraction(aNegative, A, bNegative, B, order) ==
    IF aNegative # bNegative THEN [negative |-> aNegative, size |-> Sum(A, B)]
    ELSE IF order >= 0 THEN [negative |-> aNegative, size |-> Difference(A, B)]
    ELSE [negative |-> ~bNegative, size |-> Difference(B, A)]

\* the float nearest difference / 2^down
RoundedDifference(difference, down) ==
    IF difference.size = <<>> THEN Zero
    ELSE FloatOfDouble(difference.negative,
                       RoundToDouble(difference.size, TimesPowerOf2(<<1>>, down)))

ExactDifference(aNegative, A, bNegative, B, down) ==
    RoundedDifference(Subtraction(aNegative, A, bNegative, B, Compare(A, B)), down)

\* a - b for the int a and the double b = +-M * 2^q: a = A / 2^down and
\* b = B / 2^down for natural numbers A and B
MinusDouble(a, bNegative, double) ==
    ExactDifference(a < 0, TimesPowerOf2(NatOf(IF a < 0 THEN 0 - a ELSE a),
                                         Max(0 - double.q, 0)),
                    bNegative, TimesPowerOf2(double.M, Max(double.q, 0)),
                    Max(0 - double.q, 0))

\* a - b for an int a and a number b.  With an int it is the int a - b.  With
\* a float the int is converted, the two doubles are subtracted exactly and
\* the difference is rounded to the nearest double.
Minus(a, b) ==
    IF b.t = "int" THEN PyInt(a.i - b.i)
    ELSE IF b = NaN THEN NaN
    ELSE IF ~IsFinite(b) THEN (IF b.i > 0 THEN NegInf ELSE Inf)
    ELSE MinusDouble(a.i, b.i < 0, DoubleOfDecimal(b.s, b.e))

\* --------------------------------------------- ExtendedFeature (35-127)

\* the keyword defaults of __init__
CtorDefaults ==
    [reference |-> None, start |-> None, end |-> None, name |-> None, score |-> PyInt(0),
     strand |-> None, thick_start |-> None, thick_end |-> None,
     color |-> PyStr(<<"0", ",", "0", ",", "0">>), block_count |-> None,
     block_sizes |-> None, block_starts |-> None,
     extension |-> PyInt(100), reverse_feature_shift |-> PyInt(0)]

NoFeature ==
    [reference |-> None, feature_start |-> None, feature_end |-> None, name |-> None,
     score |-> None, strand |-> None, thick_start |-> None, thick_end |-> None,
     color |-> None, block_count |-> None, block_sizes |-> None, block_starts |-> None,
     extension |-> None, reverse_feature_shift |-> None,
     is_reverse |-> FALSE, region_start |-> None, region_end |-> None]

\* the region adjustment without the strand test
ShiftApplies_anyStrand(is_reverse, shift) == Positive(shift)

\* if self.is_reverse and reverse_feature_shift > 0
ShiftApplies(is_reverse, shift) == is_reverse /\ Positive(shift)

\* reverse_feature_shift > 0 raises a TypeError for None and for a str; `and`
\* evaluates it for a reverse feature only
ShiftRaises(is_reverse, shift) == is_reverse /\ shift.t \notin {"int", "float"}

\* the region of a new object moved by the shift where it applies
Shifted(f) ==
    IF ShiftApplies(f.is_reverse, f.reverse_feature_shift)
    THEN [f EXCEPT !.region_start = Minus(f.region_start, f.reverse_feature_shift),
                   !.region_end = Minus(f.region_end, f.reverse_feature_shift)]
    ELSE f

\* the object of the converted arguments, or the exception of the first
\* conversion that failed
Initialized(a, feature_start, feature_end, score, extension) ==
    IF IsError(feature_start) THEN [error |-> feature_start.t, object |-> NoFeature]
    ELSE IF IsError(feature_end) THEN [error |-> feature_end.t, object |-> NoFeature]
    ELSE IF IsError(score) THEN [error |-> score.t, object |-> NoFeature]
    ELSE IF IsError(extension) THEN [error |-> extension.t, object |-> NoFeature]
    ELSE IF ShiftRaises(a.strand = PyStr(<<"-">>), a.reverse_feature_shift)
    THEN [error |-> "TypeError", object |-> NoFeature]
    ELSE [error |-> "none",
          object |->
            Shifted([reference |-> a.reference,
                     feature_start |-> feature_start,
                     feature_end |-> feature_end,
                     name |-> a.name,
                     score |-> score,
                     strand |-> a.strand,
                     thick_start |-> a.thick_start,
                     thick_end |-> a.thick_end,
                     color |-> a.color,
                     block_count |-> a.block_count,
                     block_sizes |-> a.block_sizes,
                     block_starts |-> a.block_starts,
                     extension |-> extension,
                     reverse_feature_shift |-> a.reverse_feature_shift,
                     is_reverse |-> a.strand = PyStr(<<"-">>),
                     region_start |-> PyInt(feature_start.i - extension.i),
                     region_end |-> PyInt(feature_end.i + extension.i)])]

\* ExtendedFeature.__init__: the new object, or the exception of the first
\* statement that fails.
ExtendedFeature(a) ==
    Initialized(a, int(a.start), int(a.end), float(a.score), int(a.extension))

\* the attributes __str__ renders, in its order
RenderedAttributes(f) ==
    <<f.reference, f.feature_start, f.feature_end, f.name, f.score, f.strand,
      f.thick_start, f.thick_end, f.color, f.block_count, f.block_sizes, f.block_starts,
      f.extension, f.reverse_feature_shift>>

\* str(attribute or '')
RenderAttribute(x) == str(OrEmpty(x))

\* ExtendedFeature.__str__
FeatureToStr(f) ==
    LET attrs == RenderedAttributes(f)
    IN  join(<<"\t">>, [k \in 1..Len(attrs) |-> RenderAttribute(attrs[k])])

\* the arguments the constructor is called with: numbers, numbers as text
\* (padded, with a digit-group underscore, with two decimals, below the
\* smallest double), and for the shift also None and floats, one of them
\* (0.1) no binary fraction
CtorStarts == {PyInt(0 - 3), PyInt(0), PyStr(<<" ", "1", "_", "0", "\f">>)}
CtorEnds == {PyInt(0), PyInt(9)}
CtorNames == {None, PyStr(<<"n">>)}
CtorScores == {PyInt(0), PyFloat(15, 0 - 1), PyStr(<<"0", ".", "2", "5">>),
               PyStr(<<"3", "e", "-", "3", "2", "4">>)}
CtorStrands == {None, PyStr(<<"+">>), PyStr(<<"-">>)}
CtorExtensions == {PyInt(0), PyInt(100)}
CtorShifts == {PyInt(0), PyInt(2), PyFloat(15, 0 - 1), PyFloat(1, 0 - 1), None}

FeatureIdle ==
    /\ ctor_args = CtorDefaults
    /\ feature = [error |-> "none", object |-> NoFeature]
    /\ rendered = <<>>
    /\ feature_pc = "idle"

FeatureInit ==
    /\ \E start \in CtorStarts, end \in CtorEnds, name \in CtorNames, score \in CtorScores,
          strand \in CtorStrands, extension \in CtorExtensions, shift \in CtorShifts :
          ctor_args = [CtorDefaults EXCEPT !.reference = PyStr(<<"c", "h", "r", "1">>),
                                           !.start = start, !.end = end, !.name = name,
                                           !.score = score, !.strand = strand,
                                           !.extension = extension,
                                           !.reverse_feature_shift = shift]
    /\ feature = [error |-> "none", object |-> NoFeature]
    /\ rendered = <<>>
    /\ feature_pc = "call"

\* feature = ExtendedFeature(**ctor_args)
Construct ==
    /\ feature_pc = "call"
    /\ feature' = ExtendedFeature(ctor_args)
    /\ feature_pc' = IF feature'.error = "none" THEN "constructed" ELSE "raised"
    /\ UNCHANGED <<ctor_args, rendered, rcVars, filterVars, readerVars, fastqVars, handles>>

\* str(feature)
Render ==
    /\ feature_pc = "constructed"
    /\ rendered' = FeatureToStr(feature.object)
    /\ feature_pc' = "rendered"
    /\ UNCHANGED <<ctor_args, feature, rcVars, filterVars, readerVars, fastqVars, handles>>


\* ------------------------------------------- open_maybe_gzipped (171-191)

\* A file on disk is [gz, text]: its text, and whether it is stored
\* gzip-compressed (gz) or as it is, in UTF-8.  gzip.open(filename, 'rt')
\* and open(filename, 'rt') both give a stream over the text.

Quote == "\""

\* The printable ASCII characters, from code 32 (the backquote by name: a
\* string of the model cannot hold it).
Printable ==
    <<" ", "!", Quote, "#", "$", "%", "&", "'", "(", ")", "*", "+",
      ",", "-", ".", "/", "0", "1", "2", "3", "4", "5", "6", "7",
      "8", "9", ":", ";", "<", "=", ">", "?", "@", "A", "B", "C",
      "D", "E", "F", "G", "H", "I", "J", "K", "L", "M", "N", "O",
      "P", "Q", "R", "S", "T", "U", "V", "W", "X", "Y", "Z", "[",
      "\\", "]", "^", "_", "backquote", "a", "b", "c", "d", "e", "f", "g",
      "h", "i", "j", "k", "l", "m", "n", "o", "p", "q", "r", "s",
      "t", "u", "v", "w", "x", "y", "z", "{", "|", "}", "~">>

\* the code point of a character
Ord(c) ==
    CASE c = "\t" -> 9
      [] c = "\n" -> 10
      [] c = VT -> 11
      [] c = "\f" -> 12
      [] c = "\r" -> 13
      [] c = FS -> 28
      [] c = GS -> 29
      [] c = RS -> 30
      [] c = US -> 31
      [] c = NEL -> 133
      [] c = NBSP -> 160
      [] OTHER -> 31 + (CHOOSE k \in 1..Len(Printable) : Printable[k] = c)

\* the bytes of a character in the file
Utf8(c) ==
    IF Ord(c) < 128 THEN <<Ord(c)>>
    ELSE <<192 + (Ord(c) \div 64), 128 + (Ord(c) % 64)>>

GzipMagic1 == 31
GzipMagic2 == 139

\* The first bytes of the file as open(filename, 'rb') reads them: a gzip
\* member starts with its two magic bytes, a plain file with its text.
FirstBytes(file) ==
    IF file.gz THEN <<GzipMagic1, GzipMagic2>>
    ELSE IF file.text = <<>> THEN <<>>
    ELSE LET bytes == IF Len(file.text) = 1 THEN Utf8(file.text[1])
                      ELSE Utf8(file.text[1]) \o Utf8(file.text[2])
         IN  SubSeq(bytes, 1, IF Len(bytes) < 2 THEN Len(bytes) ELSE 2)

\* test_read.read(1), the k-th call: one byte, or b'' at the end of the file
ReadByte(file, k) == IF Len(FirstBytes(file)) >= k THEN <<FirstBytes(file)[k]>> ELSE <<>>

\* ord(b) of a bytes object: a TypeError unless it holds one byte
OrdBytes(b) == IF Len(b) = 1 THEN PyInt(b[1]) ELSE Raise("TypeError")

\* What a stream opened in mode 'rt' delivers of the text: '\r\n' and a
\* lone '\r' are read as '\n' (universal newlines).
universal_newlines(text) ==
    LET read == [k \in 1..Len(text) |->
                    IF text[k] = "\r" THEN "\n"
                    ELSE IF text[k] = "\n" /\ k > 1 /\ text[k - 1] = "\r" THEN "none"
                    ELSE text[k]]
        Read(c) == c # "none"
    IN  SelectSeq(read, Read)

NoStream == [kind |-> "none", rest |-> <<>>]

\* open_maybe_gzipped: the stream it returns (gzip.open or open, in 'rt'
\* mode, at the start of the text), or the exception of the sniffing.
open_maybe_gzipped(file) ==
    LET byte1 == OrdBytes(ReadByte(file, 1))
        byte2 == OrdBytes(ReadByte(file, 2))
    IN  IF IsError(byte1) THEN [error |-> byte1.t, stream |-> NoStream]
        ELSE IF IsError(byte2) THEN [error |-> byte2.t, stream |-> NoStream]
        ELSE IF byte1.i = GzipMagic1 /\ byte2.i = GzipMagic2
             THEN [error |-> "none",
                   stream |-> [kind |-> "gzip", rest |-> universal_newlines(file.text)]]
             ELSE [error |-> "none",
                   stream |-> [kind |-> "text", rest |-> universal_newlines(file.text)]]

\* ---------------------------------------------------- text streams, csv

NewlineAt(s) == IF FirstIndex(s, "\n") = 0 THEN Len(s) ELSE FirstIndex(s, "\n")

\* next(f) on a text stream: the next line with its newline and the stream
\* after it; eof when nothing is left (StopIteration).
NextLine(stream) ==
    IF stream.rest = <<>> THEN [eof |-> TRUE, line |-> <<>>, stream |-> stream]
    ELSE LET n == NewlineAt(stream.rest)
         IN  [eof |-> FALSE,
              line |-> SubSeq(stream.rest, 1, n),
              stream |-> [stream EXCEPT !.rest = SubSeq(stream.rest, n + 1, Len(stream.rest))]]

\* The parser of csv.reader for the dialect excel-tab: delimiter '\t',
\* quotechar '"', doublequote, no escapechar, not strict.  It holds its
\* state, the fields of the record so far and the field being read.
ParserStart == [state |-> "START_RECORD", fields |-> <<>>, field |-> <<>>]

\* the mark the reader feeds the parser after the last character of a line
EOL == "EOL"

IsLineEnd(c) == c \in {"\n", "\r", EOL}
AfterLineEnd(c) == IF c = EOL THEN "START_RECORD" ELSE "EAT_CRNL"
parse_save_field(p) == [p EXCEPT !.fields = Append(p.fields, p.field), !.field = <<>>]
parse_add_char(p, c) == [p EXCEPT !.field = Append(p.field, c)]

\* parse_process_char: one character through the parser
parse_process_char(p, c) ==
    LET state == IF p.state = "START_RECORD" /\ ~IsLineEnd(c) THEN "START_FIELD" ELSE p.state
    IN  CASE state = "START_RECORD" ->
                IF c = EOL THEN p ELSE [p EXCEPT !.state = "EAT_CRNL"]
          [] state = "START_FIELD" ->
                IF IsLineEnd(c) THEN [parse_save_field(p) EXCEPT !.state = AfterLineEnd(c)]
                ELSE IF c = Quote THEN [p EXCEPT !.state = "IN_QUOTED_FIELD"]
                ELSE IF c = "\t" THEN [parse_save_field(p) EXCEPT !.state = "START_FIELD"]
                ELSE [parse_add_char(p, c) EXCEPT !.state = "IN_FIELD"]
          [] state = "IN_FIELD" ->
                IF IsLineEnd(c) THEN [parse_save_field(p) EXCEPT !.state = AfterLineEnd(c)]
                ELSE IF c = "\t" THEN [parse_save_field(p) EXCEPT !.state = "START_FIELD"]
                ELSE parse_add_char(p, c)
          [] state = "IN_QUOTED_FIELD" ->
                IF c = EOL THEN p
                ELSE IF c = Quote THEN [p EXCEPT !.state = "QUOTE_IN_QUOTED_FIELD"]
                ELSE parse_add_char(p, c)
          [] state = "QUOTE_IN_QUOTED_FIELD" ->
                IF c = Quote THEN [parse_add_char(p, c) EXCEPT !.state = "IN_QUOTED_FIELD"]
                ELSE IF c = "\t" THEN [parse_save_field(p) EXCEPT !.state = "START_FIELD"]
                ELSE IF IsLineEnd(c) THEN [parse_save_field(p) EXCEPT !.state = AfterLineEnd(c)]
                ELSE [parse_add_char(p, c) EXCEPT !.state = "IN_FIELD"]
          [] state = "EAT_CRNL" ->
                IF c \in {"\n", "\r"} THEN p
                ELSE IF c = EOL THEN [p EXCEPT !.state = "START_RECORD"]
                ELSE [p EXCEPT !.state = "Error"]
          [] OTHER -> p

\* the characters from..to of a line through the parser, in order, up to
\* the first error (the range is halved to keep the evaluation shallow)
RECURSIVE ParseChars(_, _, _, _)
ParseChars(p, line, from, to) ==
    IF p.state = "Error" \/ from > to THEN p
    ELSE IF from = to THEN parse_process_char(p, line[from])
    ELSE LET middle == (from + to) \div 2
         IN  ParseChars(ParseChars(p, line, from, middle), line, middle + 1, to)

\* the characters of a line, then the end-of-line mark
ParseLine(p, line) == parse_process_char(ParseChars(p, line, 1, Len(line)), EOL)

\* csv.reader.__next__ with the parser in state p: lines are read until a
\* record is complete (a quoted field may run over several lines); at the end
\* of the stream a record cut short inside a quoted field is returned as it
\* is, and eof (StopIteration) is raised when no record was begun.
RECURSIVE Reader_iternext(_, _)
Reader_iternext(p, stream) ==
    LET got == NextLine(stream)
        q == ParseLine(p, got.line)
    IN  IF got.eof
        THEN IF p.field # <<>> \/ p.state = "IN_QUOTED_FIELD"
             THEN [eof |-> FALSE, error |-> "none", row |-> parse_save_field(p).fields,
                   stream |-> got.stream]
             ELSE [eof |-> TRUE, error |-> "none", row |-> <<>>, stream |-> got.stream]
        ELSE IF q.state = "Error"
        THEN [eof |-> FALSE, error |-> "Error", row |-> <<>>, stream |-> got.stream]
        ELSE IF q.state = "START_RECORD"
        THEN [eof |-> FALSE, error |-> "none", row |-> q.fields, stream |-> got.stream]
        ELSE Reader_iternext(q, got.stream)

\* csv.DictReader.__next__: the next row that is not [], or eof
RECURSIVE NextRow(_)
NextRow(stream) ==
    LET got == Reader_iternext(ParserStart, stream)
    IN  IF ~got.eof /\ got.error = "none" /\ got.row = <<>> THEN NextRow(got.stream)
        ELSE got

\* ---------------------------------------------- read_features (194-232)

bed_fieldnames ==
    <<"reference", "start", "end", "name", "score", "strand", "thick_start",
      "thick_end", "color", "block_count", "block_sizes", "block_starts">>

\* the value DictReader gives the k-th field name: the k-th cell, or the
\* restval None when the row is shorter
Cell(row, k) == IF k <= Len(row) THEN PyStr(row[k]) ELSE None

\* feature_class(extension=..., reverse_feature_shift=..., **row): every field
\* name is passed as a keyword, so none of __init__'s defaults for the BED
\* fields applies (a missing score is None, not 0); cells beyond the field
\* names go under the key None, which no call accepts as a keyword
\* (TypeError).
FeatureOfRow(row, extension, reverse_feature_shift) ==
    IF Len(row) > Len(bed_fieldnames)
    THEN [error |-> "TypeError", object |-> NoFeature]
    ELSE ExtendedFeature(
            [reference |-> Cell(row, 1), start |-> Cell(row, 2), end |-> Cell(row, 3),
             name |-> Cell(row, 4), score |-> Cell(row, 5), strand |-> Cell(row, 6),
             thick_start |-> Cell(row, 7), thick_end |-> Cell(row, 8),
             color |-> Cell(row, 9), block_count |-> Cell(row, 10),
             block_sizes |-> Cell(row, 11), block_starts |-> Cell(row, 12),
             extension |-> extension, reverse_feature_shift |-> reverse_feature_shift])

chr1 == <<"c", "h", "r", "1">>

Line(fields) == join(<<"\t">>, fields) \o <<"\n">>

\* the rows the input files are made of: BED12, BED6, BED5 and BED3 rows, rows
\* whose start or score is no number, a row without an end, an empty line,
\* and a BED6 row as a spreadsheet writes it: a quoted name holding a tab and
\* a line break, a padded start with a digit-group underscore, a score with
\* two decimals, and a carriage return before the newline
BedLines ==
    { Line(<<chr1, <<"5">>, <<"9">>, <<"n">>, <<"1", ".", "5">>, <<"+">>, <<"5">>, <<"9">>,
             <<"0", ",", "0", ",", "0">>, <<"1">>, <<"4">>, <<"0">>>>),
      Line(<<chr1, <<"0">>, <<"9">>, <<"n">>, <<"0">>, <<"-">>>>),
      Line(<<chr1, <<"5">>, <<"9">>, <<"n">>, <<"2">>>>),
      Line(<<chr1, <<"1", "0">>, <<"2", "0">>>>),
      Line(<<chr1, <<"x">>, <<"9">>, <<"n">>, <<"0">>, <<"+">>>>),
      Line(<<chr1, <<"5">>, <<"9">>, <<"n">>, <<"s">>, <<"-">>>>),
      Line(<<chr1, <<"5">>>>),
      <<"\n">>,
      Line(<<chr1, <<" ", "1", "_", "0">>, <<"2", "0">>,
             <<Quote, "n", "\t", Quote, Quote, "\r", "\n", "m", Quote>>,
             <<"0", ".", "2", "5">>, <<"-", "\r">>>>) }

RECURSIVE concat(_)
concat(parts) == IF parts = <<>> THEN <<>> ELSE Head(parts) \o concat(Tail(parts))

BedTexts == {concat(ls) : ls \in SeqsUpTo(BedLines, MaxRows)} \cup {<<"x">>}

BedFiles == [gz : BOOLEAN, text : BedTexts]

\* the (extension, reverse_feature_shift) pairs read_features is called with
RegionParameters == {<<PyInt(100), PyInt(0)>>, <<PyInt(0), PyInt(0)>>, <<PyInt(10), PyInt(2)>>}

HandlesIdle == handles = <<>>

ReaderIdle ==
    /\ rf_args = [file |-> [gz |-> FALSE, text |-> <<>>],
                  extension |-> PyInt(100), reverse_feature_shift |-> PyInt(0)]
    /\ source = NoStream
    /\ rf_yielded = <<>>
    /\ rf_pc = "idle"
    /\ rf_error = "none"

ReaderInit ==
    /\ \E file \in BedFiles, p \in RegionParameters :
          rf_args = [file |-> file, extension |-> p[1], reverse_feature_shift |-> p[2]]
    /\ source = NoStream
    /\ rf_yielded = <<>>
    /\ rf_pc = "created"
    /\ rf_error = "none"
    /\ handles = [h \in {"test_read", "source"} |-> "unopened"]

\* One turn of `for row in reader: yield feature_class(...)` on stream s,
\* with the handles as h: the generator ends at the end of the rows, fails on
\* the exception of the parser or of the constructor, or is suspended at the
\* yield with one more feature.  When it ends, the generator returns and its
\* frame is cleared: source and reader were the only references to the
\* stream, and the reference count of the interpreter closes it before
\* StopIteration reaches the caller.  When it fails, the traceback of the
\* exception keeps the frame, and the stream stays open.
TurnOutcome(got, made, h) ==
    /\ source' = got.stream
    /\ handles' = IF got.eof THEN [h EXCEPT !["source"] = "closed"] ELSE h
    /\ IF got.eof
       THEN rf_pc' = "exhausted" /\ UNCHANGED <<rf_yielded, rf_error>>
       ELSE IF got.error # "none"
       THEN rf_pc' = "failed" /\ rf_error' = got.error /\ UNCHANGED rf_yielded
       ELSE IF made.error # "none"
       THEN rf_pc' = "failed" /\ rf_error' = made.error /\ UNCHANGED rf_yielded
       ELSE /\ rf_pc' = "suspended"
            /\ rf_yielded' = Append(rf_yielded, made.object)
            /\ UNCHANGED rf_error

\* the row the reader gives, if any, and the feature made of it
TurnOnRow(got, h) ==
    TurnOutcome(got, FeatureOfRow(got.row, rf_args.extension, rf_args.reverse_feature_shift), h)

LoopStep(s, h) == TurnOnRow(NextRow(s), h)

\* The first next() on the generator: the body runs from its top, opens the
\* file (test_read is closed by its with block, the stream it returns stays
\* open) and goes to the first yield.
FirstPull ==
    /\ rf_pc = "created"
    /\ LET opened == open_maybe_gzipped(rf_args.file)
       IN  IF opened.error # "none"
           THEN /\ rf_pc' = "failed"
                /\ rf_error' = opened.error
                /\ handles' = [handles EXCEPT !["test_read"] = "closed"]
                /\ UNCHANGED <<source, rf_yielded>>
           ELSE LoopStep(opened.stream,
                         [handles EXCEPT !["test_read"] = "closed", !["source"] = "open"])
    /\ UNCHANGED <<rf_args, rcVars, filterVars, featureVars, fastqVars>>

\* A later next(): the generator resumes after the yield.
Pull ==
    /\ rf_pc = "suspended"
    /\ LoopStep(source, handles)
    /\ UNCHANGED <<rf_args, rcVars, filterVars, featureVars, fastqVars>>

\* The caller stops pulling before the end: the frame is left at its yield,
\* which no try/finally or with block surrounds, so no statement of the
\* generator runs, then or when the generator is close()d.
Abandon ==
    /\ rf_pc \in {"created", "suspended"}
    /\ rf_pc' = "abandoned"
    /\ UNCHANGED <<rf_args, source, rf_yielded, rf_error, handles,
                   rcVars, filterVars, featureVars, fastqVars>>

\* The interpreter closes the stream once nothing refers to it any more:
\* when the caller lets go of the abandoned generator, or of the exception
\* whose traceback holds the frame.  When, and whether before the process
\* ends, is up to the caller.
Finalize ==
    /\ rf_pc \in {"failed", "abandoned"}
    /\ handles["source"] = "open"
    /\ handles' = [handles EXCEPT !["source"] = "closed"]
    /\ UNCHANGED <<readerVars, rcVars, filterVars, featureVars, fastqVars>>


\* ------------------------------------- make_fastq_pair_reader (303-341)

\* [next(f).strip(), next(f).strip(), next(f).strip(), next(f).strip()]: the
\* four stripped lines and the stream after them, or eof (StopIteration) at
\* the first next(f) that finds no line, with the stream where that left it.
RECURSIVE ReadLines(_, _)
ReadLines(stream, n) ==
    IF n = 0 THEN [eof |-> FALSE, lines |-> <<>>, stream |-> stream]
    ELSE LET got == NextLine(stream)
         IN  IF got.eof THEN [eof |-> TRUE, lines |-> <<>>, stream |-> got.stream]
             ELSE LET more == ReadLines(got.stream, n - 1)
                  IN  [eof |-> more.eof,
                       lines |-> IF more.eof THEN <<>> ELSE <<strip(got.line)>> \o more.lines,
                       stream |-> more.stream]

LinesPerRecord == 4

ReadRecord(stream) == ReadLines(stream, LinesPerRecord)

\* the FASTQ records the input files are made of: one plain, one with padded
\* lines that end in a carriage return and a newline
FastqRecords ==
    { <<"@", "a", "\n", "A", "C", "G", "T", "\n", "+", "\n", "I", "I", "I", "I", "\n">>,
      <<"@", "b", " ", "\r", "\n", NBSP, "A", "C", "\t", "\r", "\n", "+", "\r", "\n",
        "I", "I", "\f", "\r", "\n">> }

\* what may follow the last complete record: nothing, or the first two lines
\* of a record cut short
FastqTails == { <<>>, <<"@", "c", "\n", "G", "\n">> }

FastqTexts == {concat(rs) \o tail : rs \in SeqsUpTo(FastqRecords, MaxRecords), tail \in FastqTails}

FastqFiles == [gz : BOOLEAN, text : FastqTexts]

\* how the StopIteration of next(f) leaves the generator: as it is, or (PEP
\* 479) as a RuntimeError caused by it, depending on the interpreter
EndOfStream == {"StopIteration", "RuntimeError"}

FastqIdle ==
    /\ fq_args = [fastq_file1 |-> [gz |-> FALSE, text |-> <<>>],
                  fastq_file2 |-> [gz |-> FALSE, text |-> <<>>]]
    /\ f1 = NoStream
    /\ f2 = NoStream
    /\ fq_yielded = <<>>
    /\ fq_pc = "idle"
    /\ fq_error = "none"

FastqInit ==
    /\ fq_args \in [fastq_file1 : FastqFiles, fastq_file2 : FastqFiles]
    /\ f1 = NoStream
    /\ f2 = NoStream
    /\ fq_yielded = <<>>
    /\ fq_pc = "created"
    /\ fq_error = "none"
    /\ handles = [h \in {"test_read1", "f1", "test_read2", "f2"} |-> "unopened"]

\* One turn of `while True: yield (...)` on the streams s1 and s2: the record
\* of f1 is read first, then the record of f2.
FastqLoopStep(s1, s2) ==
    LET r1 == ReadRecord(s1)
        r2 == ReadRecord(s2)
    IN  /\ f1' = r1.stream
        /\ IF r1.eof
           THEN /\ fq_pc' = "failed"
                /\ fq_error' \in EndOfStream
                /\ UNCHANGED fq_yielded
                /\ f2' = s2
           ELSE /\ f2' = r2.stream
                /\ IF r2.eof
                   THEN fq_pc' = "failed" /\ fq_error' \in EndOfStream /\ UNCHANGED fq_yielded
                   ELSE /\ fq_pc' = "suspended"
                        /\ fq_yielded' = Append(fq_yielded, <<r1.lines, r2.lines>>)
                        /\ UNCHANGED fq_error

\* The first next(): both files are opened, f1 before f2, then the first
\* pair is read.
FastqFirstPull ==
    /\ fq_pc = "created"
    /\ LET o1 == open_maybe_gzipped(fq_args.fastq_file1)
           o2 == open_maybe_gzipped(fq_args.fastq_file2)
       IN  IF o1.error # "none"
           THEN /\ fq_pc' = "failed"
                /\ fq_error' = o1.error
                /\ handles' = [handles EXCEPT !["test_read1"] = "closed"]
                /\ UNCHANGED <<f1, f2, fq_yielded>>
           ELSE IF o2.error # "none"
           THEN /\ fq_pc' = "failed"
                /\ fq_error' = o2.error
                /\ handles' = [handles EXCEPT !["test_read1"] = "closed", !["f1"] = "open",
                                              !["test_read2"] = "closed"]
                /\ f1' = o1.stream
                /\ UNCHANGED <<f2, fq_yielded>>
           ELSE /\ handles' = [handles EXCEPT !["test_read1"] = "closed", !["f1"] = "open",
                                              !["test_read2"] = "closed", !["f2"] = "open"]
                /\ FastqLoopStep(o1.stream, o2.stream)
    /\ UNCHANGED <<fq_args, rcVars, filterVars, featureVars, readerVars>>

\* A later next(): the generator resumes after the yield.
FastqPull ==
    /\ fq_pc = "suspended"
    /\ FastqLoopStep(f1, f2)
    /\ UNCHANGED <<fq_args, handles, rcVars, filterVars, featureVars, readerVars>>

\* The caller stops pulling: no statement of the generator runs.
FastqAbandon ==
    /\ fq_pc \in {"created", "suspended"}
    /\ fq_pc' = "abandoned"
    /\ UNCHANGED <<fq_args, f1, f2, fq_yielded, fq_error, handles,
                   rcVars, filterVars, featureVars, readerVars>>

\* The interpreter's finalizer closes a stream nothing refers to any more.
FastqFinalize ==
    /\ fq_pc \in {"failed", "abandoned"}
    /\ \E h \in {"f1", "f2"} :
          /\ handles[h] = "open"
          /\ handles' = [handles EXCEPT ![h] = "closed"]
    /\ UNCHANGED <<fastqVars, rcVars, filterVars, featureVars, readerVars>>

\* ---------------------------------------------------------- specifications

InitComplement == RcInit /\ FilterIdle /\ FeatureIdle /\ ReaderIdle /\ FastqIdle /\ HandlesIdle

NextComplement == CallReverseComplement \/ CallReverseComplementAgain

SpecComplement == InitComplement /\ [][NextComplement]_vars

InitFilter == FilterInit /\ RcIdle /\ FeatureIdle /\ ReaderIdle /\ FastqIdle /\ HandlesIdle

NextFilter == CallFilter

SpecFilter == InitFilter /\ [][NextFilter]_vars

InitFeature == FeatureInit /\ RcIdle /\ FilterIdle /\ ReaderIdle /\ FastqIdle /\ HandlesIdle

NextFeature == Construct \/ Render

SpecFeature == InitFeature /\ [][NextFeature]_vars

InitFeatures == ReaderInit /\ RcIdle /\ FilterIdle /\ FeatureIdle /\ FastqIdle

NextFeatures == FirstPull \/ Pull \/ Abandon \/ Finalize

SpecFeatures == InitFeatures /\ [][NextFeatures]_vars

InitFastq == FastqInit /\ RcIdle /\ FilterIdle /\ FeatureIdle /\ ReaderIdle

NextFastq == FastqFirstPull \/ FastqPull \/ FastqAbandon \/ FastqFinalize

SpecFastq == InitFastq /\ [][NextFastq]_vars

\* ------------------------------------------------------------ properties

\* bit k of the non-negative integer n
Bit(n, k) == (n \div (2 ^ k)) % 2
FlagBits == 0..11
HasAllBits(flag, f) == \A k \in FlagBits : Bit(f, k) = 1 => Bit(flag, k) = 1
SharesNoBit(flag, f) == \A k \in FlagBits : ~(Bit(f, k) = 1 /\ Bit(flag, k) = 1)

KeptByClaim(a) ==
    /\ a.mapping_quality >= quality
    /\ \E i \in DOMAIN include_flags : HasAllBits(a.flag, include_flags[i])
    /\ \A i \in DOMAIN exclude_flags : SharesNoBit(a.flag, exclude_flags[i])

\* C1: filter_aligned_segments returns exactly the subsequence of its input,
\* in the input's order and with every record as it was, of the segments
\* whose mapping quality is at least the threshold, whose flag contains every
\* bit of some include flag and shares no bit with any exclude flag; an empty
\* include list gives an empty result, an empty exclude list excludes nothing.
C1_FilterReturnsMatchingSubsequence ==
    filter_pc = "returned" =>
        LET keep == {i \in DOMAIN aligned_segments : KeptByClaim(aligned_segments[i])}
            out == filtered_aligned_segments
        IN  /\ Len(out) = Cardinality(keep)
            /\ \E at \in [DOMAIN out -> DOMAIN aligned_segments] :
                  /\ \A j, k \in DOMAIN out : j < k => at[j] < at[k]
                  /\ {at[j] : j \in DOMAIN out} = keep
                  /\ \A j \in DOMAIN out : out[j] = aligned_segments[at[j]]
            /\ (include_flags = <<>> => out = <<>>)
            /\ (exclude_flags = <<>> =>
                    Len(out) = Cardinality(
                        {i \in DOMAIN aligned_segments :
                            /\ aligned_segments[i].mapping_quality >= quality
                            /\ \E f \in DOMAIN include_flags :
                                  HasAllBits(aligned_segments[i].flag, include_flags[f])}))

\* the filter has kept one segment and dropped another, with exclude flags given
C1_Witness ==
    /\ filter_pc = "returned"
    /\ exclude_flags # <<>>
    /\ Len(filtered_aligned_segments) >= 1
    /\ Len(filtered_aligned_segments) < Len(aligned_segments)

\* start, end, extension >= 0 and reverse_feature_shift >= 0 are integers
IntegerArguments ==
    /\ ctor_args.start.t = "int"
    /\ ctor_args.end.t = "int"
    /\ ctor_args.extension.t = "int" /\ ctor_args.extension.i >= 0
    /\ ctor_args.reverse_feature_shift.t = "int" /\ ctor_args.reverse_feature_shift.i >= 0

\* C2: a feature on strand '-' built from integer arguments with
\* reverse_feature_shift s > 0 has
\* region_start = start - extension - s and region_end = end + extension - s;
\* in every other case (strand '+' or absent, or s = 0) region_start =
\* start - extension and region_end = end + extension.
C2_RegionBounds ==
    (feature_pc \in {"constructed", "rendered"} /\ IntegerArguments) =>
        LET start == ctor_args.start.i
            end == ctor_args.end.i
            extension == ctor_args.extension.i
            s == ctor_args.reverse_feature_shift.i
            region_start == feature.object.region_start
            region_end == feature.object.region_end
        IN  IF ctor_args.strand = PyStr(<<"-">>) /\ s > 0
            THEN /\ region_start = PyInt(start - extension - s)
                 /\ region_end = PyInt(end + extension - s)
            ELSE /\ region_start = PyInt(start - extension)
                 /\ region_end = PyInt(end + extension)

\* a reverse-strand feature with a positive shift and a positive extension
C2_Witness ==
    /\ feature_pc = "constructed"
    /\ IntegerArguments
    /\ ctor_args.strand = PyStr(<<"-">>)
    /\ ctor_args.reverse_feature_shift.i > 0
    /\ ctor_args.extension.i > 0
    /\ feature.object.region_end = PyInt(ctor_args.end.i + ctor_args.extension.i
                                             - ctor_args.reverse_feature_shift.i)

\* the rendering the specification describes: the value, or '' when absent
RenderedByClaim(x) == IF x = None THEN <<>> ELSE str(x)

\* C7: the string of a feature is its 14 fields in the fixed order joined by
\* tabs, each field with a value rendered as that value, and a field rendered
\* as the empty string exactly when it is absent.
C7_EmptyExactlyWhenAbsent ==
    feature_pc = "rendered" =>
        LET attrs == RenderedAttributes(feature.object)
        IN  rendered = join(<<"\t">>, [k \in 1..Len(attrs) |-> RenderedByClaim(attrs[k])])

ComplementPairs == {<<"A", "T">>, <<"C", "G">>, <<"N", "N">>,
                    <<"a", "t">>, <<"c", "g">>, <<"n", "n">>}
Partner(b) == CHOOSE c \in Bases : <<b, c>> \in ComplementPairs \/ <<c, b>> \in ComplementPairs

\* C8: reverse_complement(reverse_complement(seq)) = seq for every sequence
\* over A, C, G, T, N in either case, the empty one included, and
\* reverse_complement(seq) has the length of seq and holds, read backwards,
\* the partner (A<->T, C<->G, N->N, case kept) of each base of seq.
C8_ReverseComplementInvolution ==
    /\ rc_calls >= 1 =>
          /\ Len(rc_once) = Len(seq)
          /\ \A i \in 1..Len(seq) : rc_once[i] = Partner(seq[Len(seq) + 1 - i])
    /\ rc_calls = 2 => rc_twice = seq

\* a sequence that is not its own reverse complement has gone through twice
C8_Witness ==
    /\ rc_calls = 2
    /\ Len(seq) = MaxSeqLen
    /\ rc_once # seq
    /\ rc_twice = seq

\* the rows the tabular parser delivers from the text of a file
RECURSIVE RowsOf(_)
RowsOf(stream) ==
    LET got == NextRow(stream)
    IN  IF got.eof THEN <<>> ELSE <<got.row>> \o RowsOf(got.stream)

InputRows == RowsOf([kind |-> "text", rest |-> universal_newlines(rf_args.file.text)])

\* Reading a text as an integer, one character at a time: blanks, a sign,
\* digits with single underscores between them, blanks.
IntScan(st, c) ==
    CASE c \in NumericWhitespace ->
            IF st = "lead" THEN "lead" ELSE IF st \in {"digit", "trail"} THEN "trail" ELSE "no"
      [] c \in {"+", "-"} -> IF st = "lead" THEN "sign" ELSE "no"
      [] IsDigit(c) -> IF st \in {"lead", "sign", "digit", "under"} THEN "digit" ELSE "no"
      [] c = "_" -> IF st = "digit" THEN "under" ELSE "no"
      [] OTHER -> "no"

RECURSIVE IntScanFrom(_, _)
IntScanFrom(st, s) == IF s = <<>> THEN st ELSE IntScanFrom(IntScan(st, Head(s)), Tail(s))

IntLiteral(s) == IntScanFrom("lead", s) \in {"digit", "trail"}

IntLiteralValue(s) ==
    (IF \E k \in 1..Len(s) : s[k] = "-" THEN 0 - 1 ELSE 1) * DigitsValue(SelectSeq(s, IsDigit))

\* Reading a text as a decimal number, one character at a time: blanks, a
\* sign, digits, a point, digits, an exponent with its sign and digits,
\* blanks; digits on at least one side of the point, single underscores
\* between digits.
FloatScan(st, c) ==
    CASE c \in NumericWhitespace ->
            IF st = "lead" THEN "lead"
            ELSE IF st \in {"int", "dot1", "frac", "exp", "trail"} THEN "trail" ELSE "no"
      [] c \in {"+", "-"} ->
            IF st = "lead" THEN "sign" ELSE IF st = "e" THEN "esign" ELSE "no"
      [] IsDigit(c) ->
            IF st \in {"lead", "sign", "int", "intu"} THEN "int"
            ELSE IF st \in {"dot0", "dot1", "frac", "fracu"} THEN "frac"
            ELSE IF st \in {"e", "esign", "exp", "expu"} THEN "exp" ELSE "no"
      [] c = "_" ->
            IF st = "int" THEN "intu" ELSE IF st = "frac" THEN "fracu"
            ELSE IF st = "exp" THEN "expu" ELSE "no"
      [] c = "." ->
            IF st \in {"lead", "sign"} THEN "dot0" ELSE IF st = "int" THEN "dot1" ELSE "no"
      [] c \in {"e", "E"} -> IF st \in {"int", "dot1", "frac"} THEN "e" ELSE "no"
      [] OTHER -> "no"

RECURSIVE FloatScanFrom(_, _)
FloatScanFrom(st, s) == IF s = <<>> THEN st ELSE FloatScanFrom(FloatScan(st, Head(s)), Tail(s))

\* inf, infinity and nan, signed, in either case
FloatWord(s) ==
    LET word == Unsigned(NumericBody(s))
    IN  [k \in 1..Len(word) |-> Lower(word[k])] \in
            {<<"i", "n", "f">>, <<"i", "n", "f", "i", "n", "i", "t", "y">>, <<"n", "a", "n">>}

FloatLiteral(s) ==
    FloatScanFrom("lead", s) \in {"int", "dot1", "frac", "exp", "trail"} \/ FloatWord(s)

\* the row has a start and an end that are integers and, where it has a
\* score, a score that is a number
WellFormedNumbers(row) ==
    /\ Len(row) >= 3
    /\ IntLiteral(row[2])
    /\ IntLiteral(row[3])
    /\ Len(row) >= 5 => FloatLiteral(row[5])

\* start, end or score of the row cannot be read as a number: start or end
\* is missing or is no integer, or the score the row has is no number (a row
\* without a score column has no score that cannot be read)
Unparsable(row) == ~WellFormedNumbers(row)

\* the place of the first such row in rows, 0 when there is none
FirstUnparsableIn(rows) ==
    IF \E k \in DOMAIN rows : Unparsable(rows[k])
    THEN CHOOSE k \in DOMAIN rows :
            Unparsable(rows[k]) /\ \A j \in 1..(k - 1) : ~Unparsable(rows[j])
    ELSE 0

\* the yielded feature j was built from row j
BuiltFromRow(f, row) ==
    /\ f.reference = PyStr(row[1])
    /\ f.feature_start = PyInt(IntLiteralValue(row[2]))
    /\ f.feature_end = PyInt(IntLiteralValue(row[3]))
    /\ f.extension = rf_args.extension
    /\ f.reverse_feature_shift = rf_args.reverse_feature_shift

\* C9: when row k is the first row whose start, end or score cannot be read
\* as a number, read_features yields the features of rows 1..k-1 in order and
\* the pull for row k raises a TypeError or ValueError: no feature is ever
\* yielded for row k or a later row, and the sequence never ends normally.
C9_FirstBadRowRaises ==
    LET rows == InputRows
        k == FirstUnparsableIn(rows)
    IN  k > 0 =>
            /\ Len(rf_yielded) <= k - 1
            /\ \A j \in DOMAIN rf_yielded : BuiltFromRow(rf_yielded[j], rows[j])
            /\ rf_pc # "exhausted"
            /\ rf_pc = "failed" =>
                  /\ Len(rf_yielded) = k - 1
                  /\ rf_error \in {"TypeError", "ValueError"}

\* C5: from a file of n rows with well-formed numeric fields read_features
\* yields n features, the i-th built from the i-th row, one per pull, and is
\* exhausted after them.
C5_OneFeaturePerRow ==
    (\A k \in DOMAIN InputRows : WellFormedNumbers(InputRows[k])) =>
        /\ rf_pc # "failed"
        /\ Len(rf_yielded) <= Len(InputRows)
        /\ \A j \in DOMAIN rf_yielded : BuiltFromRow(rf_yielded[j], InputRows[j])
        /\ rf_pc = "exhausted" => Len(rf_yielded) = Len(InputRows)

ShortWellFormed(row) == WellFormedNumbers(row) /\ Len(row) < Len(bed_fieldnames)

\* the BED fields of a feature, in the order of the columns
BedFieldsOf(f) ==
    <<f.reference, f.feature_start, f.feature_end, f.name, f.score, f.strand,
      f.thick_start, f.thick_end, f.color, f.block_count, f.block_sizes, f.block_starts>>

\* C6: a row of k columns, 3 <= k < 12, whose numeric fields are well formed
\* does not make its pull fail, and the feature yielded for it has the fields
\* after the k-th absent.
C6_ShortRowYieldsFeature ==
    /\ (rf_pc = "failed" /\ Len(rf_yielded) < Len(InputRows)) =>
            ~ShortWellFormed(InputRows[Len(rf_yielded) + 1])
    /\ \A j \in DOMAIN rf_yielded :
            ShortWellFormed(InputRows[j]) =>
                \A c \in (Len(InputRows[j]) + 1)..Len(bed_fieldnames) :
                    BedFieldsOf(rf_yielded[j])[c] = None

\* C4: once the sequence of read_features is exhausted, has failed or was
\* abandoned by its caller, no handle the reader opened is still open.
C4_HandlesReleasedAtEnd ==
    rf_pc \in {"exhausted", "failed", "abandoned"} =>
        \A h \in DOMAIN handles : handles[h] # "open"

\* C10: for every file, of any length, open_maybe_gzipped returns a
\* decompressing stream when the first two bytes are 0x1f 0x8b and a plain
\* text stream otherwise, at the start of the content; the sniffing never
\* fails.
C10_SniffNeverFails ==
    handles["test_read"] = "closed" =>
        source.kind = IF FirstBytes(rf_args.file) = <<GzipMagic1, GzipMagic2>>
                      THEN "gzip" ELSE "text"

\* s cut at every sep
RECURSIVE split(_, _)
split(s, sep) ==
    IF FirstIndex(s, sep) = 0 THEN <<s>>
    ELSE <<SubSeq(s, 1, FirstIndex(s, sep) - 1)>>
            \o split(SubSeq(s, FirstIndex(s, sep) + 1, Len(s)), sep)

\* the complete records of a FASTQ text: its lines, stripped, in fours
LinesOf(text) ==
    LET parts == split(text, "\n")
    IN  IF parts[Len(parts)] = <<>> THEN SubSeq(parts, 1, Len(parts) - 1) ELSE parts

RecordsOf(text) ==
    LET lines == LinesOf(text)
    IN  [r \in 1..(Len(lines) \div LinesPerRecord) |->
            [l \in 1..LinesPerRecord |-> strip(lines[LinesPerRecord * (r - 1) + l])]]

Smaller(a, b) == IF a < b THEN a ELSE b

\* C3: successive pulls on make_fastq_pair_reader yield exactly min(n1, n2)
\* pairs, the k-th being record k of file 1 with record k of file 2, each line
\* stripped, and the pull after the last pair fails with an end-of-stream
\* condition; nothing of a partial record is ever yielded.
C3_LockstepPairsThenEndOfStream ==
    LET records1 == RecordsOf(fq_args.fastq_file1.text)
        records2 == RecordsOf(fq_args.fastq_file2.text)
        pairs == Smaller(Len(records1), Len(records2))
    IN  fq_pc # "idle" =>
            /\ Len(fq_yielded) <= pairs
            /\ \A k \in DOMAIN fq_yielded : fq_yielded[k] = <<records1[k], records2[k]>>
            /\ fq_pc = "failed" =>
                  /\ Len(fq_yielded) = pairs
                  /\ fq_error \in EndOfStream

====
